---- MODULE Spec2Model ----
(***************************************************************************)
(* Model of the two protocol simulators of Tools/:                         *)
(*   tsl_simulator.py   build_tsl5_message (TSL UMD 5.0 frame encoder) and *)
(*                      main (the tally client driver);                    *)
(*   ross_simulator.py  RossTalkSimulator (broadcast server, interactive   *)
(*                      menu, production sequence, keyer toggle test).     *)
(* Text is a sequence of Unicode code points, a byte string a sequence of  *)
(* numbers 0..255.                                                         *)
(***************************************************************************)
EXTENDS Integers, Sequences, FiniteSets, TLC

(***************************************************************************)
(* Bounds of the model.                                                    *)
(***************************************************************************)
\* longest label enumerated over LabelAlphabet for the encoder
MaxLabelLen == 2
\* ticks the tally driver completes before the model stops counting
MaxTicks == 8
\* clients that may connect to the RossTalk server
MaxPeers == 2
\* menu choices the operator makes
MaxOps == 2
\* clients that may connect while a sequence or test runs
SeqPeers == 1
\* sequences and tests the operator starts
SeqOps == 1
\* menu choices of the operator who types arbitrary lines
CmdOps == 1
\* iterations of the keyer toggle loop
MaxToggles == 3

(***************************************************************************)
(* Text literals.                                                          *)
(***************************************************************************)
AsciiChars ==
    <<" ", "!", "dquote", "#", "$", "%", "&", "'", "(", ")", "*", "+", ",", "-", ".", "/",
      "0", "1", "2", "3", "4", "5", "6", "7", "8", "9", ":", ";", "<", "=", ">", "?",
      "@", "A", "B", "C", "D", "E", "F", "G", "H", "I", "J", "K", "L", "M", "N", "O",
      "P", "Q", "R", "S", "T", "U", "V", "W", "X", "Y", "Z", "[", "bslash", "]", "^", "_",
      "btick", "a", "b", "c", "d", "e", "f", "g", "h", "i", "j", "k", "l", "m", "n", "o",
      "p", "q", "r", "s", "t", "u", "v", "w", "x", "y", "z", "{", "|", "}", "~">>

\* code point of a printable ASCII character
Ord(c) == 31 + CHOOSE i \in 1..Len(AsciiChars) : AsciiChars[i] = c

\* the text whose characters are listed in t
Str(t) == [i \in 1..Len(t) |-> Ord(t[i])]

CR == 13
LF == 10

RECURSIVE Concat(_)
\* concatenation of a sequence of sequences
Concat(ss) == IF ss = <<>> THEN <<>> ELSE Head(ss) \o Concat(Tail(ss))

(***************************************************************************)
(* tsl_simulator.py: build_tsl5_message                                    *)
(***************************************************************************)
\* the exception that left a call ("none": it returned)
NoError == "none"
UnicodeEncodeError == "UnicodeEncodeError"
StructError == "struct.error"

\* a lone surrogate has no UTF-8 form: str.encode raises UnicodeEncodeError
IsSurrogate(c) == c >= 55296 /\ c <= 57343

\* UTF-8 bytes of one code point
Utf8Char(c) ==
    IF c < 128 THEN <<c>>
    ELSE IF c < 2048 THEN <<192 + (c \div 64), 128 + (c % 64)>>
    ELSE IF c < 65536
        THEN <<224 + (c \div 4096), 128 + ((c \div 64) % 64), 128 + (c % 64)>>
    ELSE <<240 + (c \div 262144), 128 + ((c \div 4096) % 64),
           128 + ((c \div 64) % 64), 128 + (c % 64)>>

\* text.encode("utf-8") raises
Utf8Raises(text) == \E i \in 1..Len(text) : IsSurrogate(text[i])

\* text.encode("utf-8")
Utf8Encode(text) == Concat([i \in 1..Len(text) |-> Utf8Char(text[i])])

\* struct.pack("<H", v) raises struct.error outside the unsigned 16-bit range
PackU16Raises(v) == v < 0 \/ v > 65535

\* mutant: the high byte first (">H")
PackU16_BigEndian(v) == <<v \div 256, v % 256>>

\* struct.pack("<H", v): two bytes, low byte first
PackU16(v) == <<v % 256, v \div 256>>

\* struct.pack("<B", v)
PackU8(v) == <<v>>

\* mutant: the preview pair shifted by 4 instead of 2
ControlBits_Shift4(program, preview) ==
    (IF program THEN 3 ELSE 0) + (IF preview THEN 3 * 16 ELSE 0)

\* control = 0; if program: control |= 0x03; if preview: control |= 0x03 << 2
ControlBits(program, preview) ==
    (IF program THEN 3 ELSE 0) + (IF preview THEN 3 * 4 ELSE 0)

\* mutant: the index and control fields only, 8 + text_len
PayloadByteCount_8(text_len) == 1 + 1 + 2 + 2 + 2 + text_len

\* mutant: the length field counted in, 12 + text_len
PayloadByteCount_12(text_len) == 2 + 1 + 1 + 2 + 2 + 2 + 2 + text_len

\* pbc = 1 + 1 + 2 + 2 + 2 + 2 + text_len
PayloadByteCount(text_len) == 1 + 1 + 2 + 2 + 2 + 2 + text_len

\* msg, as the code appends the packed fields to it
FrameBytes(index, control, text_bytes) ==
    PackU16(PayloadByteCount(Len(text_bytes)))
        \o PackU8(0)
        \o PackU8(0)
        \o PackU16(0)
        \o PackU16(index)
        \o PackU16(control)
        \o PackU16(Len(text_bytes))
        \o text_bytes

\* build_tsl5_message(index, program, preview, text): the frame returned, or
\* the exception that leaves the function
build_tsl5_message(index, program, preview, text) ==
    IF Utf8Raises(text)
    THEN [raised |-> UnicodeEncodeError, msg |-> <<>>]
    ELSE LET text_bytes == Utf8Encode(text)
             control == ControlBits(program, preview)
         IN  IF \/ PackU16Raises(PayloadByteCount(Len(text_bytes)))
                \/ PackU16Raises(index)
                \/ PackU16Raises(Len(text_bytes))
             THEN [raised |-> StructError, msg |-> <<>>]
             ELSE [raised |-> NoError,
                   msg |-> FrameBytes(index, control, text_bytes)]

\* SOURCES
SOURCES ==
    << <<1, Str(<<"1",":","M","E","1","P","G","M",":","C","A","M"," ","1">>)>>,
       <<2, Str(<<"2",":","M","E","1","P","G","M",":","C","A","M"," ","2">>)>>,
       <<3, Str(<<"3",":","M","E","1","P","G","M",":","C","A","M"," ","3">>)>>,
       <<4, Str(<<"4",":","M","E","1","P","G","M",":","G","R","A","P","H","I","C","S">>)>> >>

(***************************************************************************)
(* State.                                                                  *)
(***************************************************************************)
VARIABLES
    \* one call of build_tsl5_message: its arguments and what came of it
    e_args, e_out,
    \* tsl_simulator.main: position, rotation cursor, frames of the tick
    \* written so far, completed ticks
    t_pc, current_program, tick, ticks,
    \* RossTalkSimulator: self.running, self.server_socket, self.clients
    running, server_socket, clients,
    \* per client socket: the peer's end, the bytes written to it so far, its
    \* reader thread (_receive_data); and the accept thread
    conn, rx, r_pc, a_pc,
    \* the main thread: position, and inside send_command its argument, its
    \* caller and the part of the copied list still to iterate
    m_pc, command, caller, todo,
    \* _run_production_sequence: commands issued so far;
    \* _run_keyer_toggle_test: keyer_on, loop iterations begun
    seq_i, keyer_on, toggles,
    \* menu choices made
    ops,
    \* history: the current and the previous call of send_command, and the
    \* current menu choice (the commands it passed to send_command, how its
    \* sequence or test ended)
    bc, bc_prev, run

encVars == <<e_args, e_out>>
tslVars == <<t_pc, current_program, tick, ticks>>
srvVars == <<running, server_socket>>
peerVars == <<conn, rx, r_pc, a_pc>>
sendVars == <<command, caller, todo>>
seqVars == <<seq_i, keyer_on, toggles>>
histVars == <<bc, bc_prev, run>>
rossVars == <<running, server_socket, clients, conn, rx, r_pc, a_pc, m_pc,
              command, caller, todo, seq_i, keyer_on, toggles, ops,
              bc, bc_prev, run>>
vars == <<e_args, e_out, t_pc, current_program, tick, ticks,
          running, server_socket, clients, conn, rx, r_pc, a_pc, m_pc,
          command, caller, todo, seq_i, keyer_on, toggles, ops,
          bc, bc_prev, run>>

(***************************************************************************)
(* Inputs of the encoder.                                                  *)
(***************************************************************************)
\* all sequences over S of length at most n
BoundedSeqs(S, n) == UNION {[1..k -> S] : k \in 0..n}

\* one code point of each UTF-8 width (A, e-acute, euro sign, an emoji), and a
\* lone surrogate
LabelAlphabet == {65, 233, 8364, 128512, 55296}

CAM1 == Str(<<"C", "A", "M", " ", "1">>)

Labels ==
    BoundedSeqs(LabelAlphabet, MaxLabelLen)
        \cup {CAM1} \cup {SOURCES[i][2] : i \in 1..Len(SOURCES)}

\* indexes at the ends of the unsigned 16-bit range and around a byte
\* boundary, and one on each side outside the range
IndexSamples == {-1, 0, 1, 2, 255, 256, 258, 65534, 65535, 65536}

NotCalled == [raised |-> "not called", msg |-> <<>>]

InitEnc ==
    /\ e_args \in [index : IndexSamples, program : BOOLEAN,
                   preview : BOOLEAN, text : Labels]
    /\ e_out = NotCalled

IdleEnc ==
    /\ e_args = [index |-> 0, program |-> FALSE, preview |-> FALSE, text |-> <<>>]
    /\ e_out = NotCalled

\* the call build_tsl5_message(index, program, preview, text)
Encode ==
    /\ e_out = NotCalled
    /\ e_out' = build_tsl5_message(e_args.index, e_args.program,
                                   e_args.preview, e_args.text)
    /\ UNCHANGED <<e_args, tslVars, rossVars>>

(***************************************************************************)
(* tsl_simulator.py: main (the tally client driver)                        *)
(***************************************************************************)
InitTsl ==
    /\ t_pc = "connect"
    /\ current_program = 0
    /\ tick = <<>>
    /\ ticks = 0

IdleTsl ==
    /\ t_pc = "idle"
    /\ current_program = 0
    /\ tick = <<>>
    /\ ticks = 0

\* is_program = i == current_program   (i counts from 0)
IsProgram(i, cursor) == i = cursor

\* mutant: the lookahead without the wrap
IsPreview_NoWrap(i, cursor) == i = cursor + 1

\* is_preview = i == (current_program + 1) % len(SOURCES)
IsPreview(i, cursor) == i = (cursor + 1) % Len(SOURCES)

\* current_program = (current_program + 1) % len(SOURCES)
NextCursor(cursor) == (cursor + 1) % Len(SOURCES)

\* sock.connect succeeds; current_program = 0
TslConnect ==
    /\ t_pc = "connect"
    /\ t_pc' = "send"
    /\ current_program' = 0
    /\ UNCHANGED <<tick, ticks, encVars, rossVars>>

\* sock.connect raises (refused or another error): sys.exit(1)
TslConnectFail ==
    /\ t_pc = "connect"
    /\ t_pc' = "exit1"
    /\ UNCHANGED <<current_program, tick, ticks, encVars, rossVars>>

\* one iteration of "for i, (index, label) in enumerate(SOURCES)": the frame
\* is built and sock.sendall writes it
TslSendFrame ==
    /\ t_pc = "send"
    /\ Len(tick) < Len(SOURCES)
    /\ LET i == Len(tick)
           index == SOURCES[i + 1][1]
           label == SOURCES[i + 1][2]
           is_program == IsProgram(i, current_program)
           is_preview == IsPreview(i, current_program)
           built == build_tsl5_message(index, is_program, is_preview, label)
       IN  /\ built.raised = NoError
           /\ tick' = Append(tick, [i |-> i, index |-> index,
                                    program |-> is_program,
                                    preview |-> is_preview,
                                    label |-> label, msg |-> built.msg])
    /\ UNCHANGED <<t_pc, current_program, ticks, encVars, rossVars>>

\* build_tsl5_message or sock.sendall raises (the listener went away): the
\* exception is not a KeyboardInterrupt, so after "finally: sock.close()" it
\* ends the process
TslSendFail ==
    /\ t_pc = "send"
    /\ Len(tick) < Len(SOURCES)
    /\ t_pc' = "crashed"
    /\ UNCHANGED <<current_program, tick, ticks, encVars, rossVars>>

\* the for loop is exhausted: the summary is printed and time.sleep begins
TslTickSent ==
    /\ t_pc = "send"
    /\ Len(tick) = Len(SOURCES)
    /\ t_pc' = "sleep"
    /\ UNCHANGED <<current_program, tick, ticks, encVars, rossVars>>

\* time.sleep returns; the cursor advances and the next tick begins
TslAdvance ==
    /\ t_pc = "sleep"
    /\ ticks < MaxTicks
    /\ current_program' = NextCursor(current_program)
    /\ ticks' = ticks + 1
    /\ tick' = <<>>
    /\ t_pc' = "send"
    /\ UNCHANGED <<encVars, rossVars>>

\* KeyboardInterrupt inside the try: "Stopped." is printed, sock.close()
TslInterrupt ==
    /\ t_pc \in {"send", "sleep"}
    /\ t_pc' = "stopped"
    /\ UNCHANGED <<current_program, tick, ticks, encVars, rossVars>>

(***************************************************************************)
(* ross_simulator.py: operator input and the commands of the menu          *)
(***************************************************************************)
\* the characters str.strip() removes
Whitespace ==
    {9, 10, 11, 12, 13, 28, 29, 30, 31, 32, 133, 160, 5760}
        \cup (8192..8202) \cup {8232, 8233, 8239, 8287, 12288}

RECURSIVE LStrip(_)
LStrip(t) ==
    IF t # <<>> /\ Head(t) \in Whitespace THEN LStrip(Tail(t)) ELSE t

RECURSIVE RStrip(_)
RStrip(t) ==
    IF t # <<>> /\ t[Len(t)] \in Whitespace
    THEN RStrip(SubSeq(t, 1, Len(t) - 1))
    ELSE t

\* str.strip()
Strip(t) == RStrip(LStrip(t))

RECURSIVE UpToNewline(_)
UpToNewline(t) ==
    IF t = <<>> \/ Head(t) = LF THEN <<>>
    ELSE <<Head(t)>> \o UpToNewline(Tail(t))

\* input(prompt): the characters typed, up to the newline that ends the line
Input(typed) == UpToNewline(typed)

\* input(prompt).strip() or default
Prompt(typed, default) ==
    LET t == Strip(Input(typed)) IN IF t = <<>> THEN default ELSE t

Colon == Str(<<":">>)
Space == Str(<<" ">>)
One == Str(<<"1">>)
Off == Str(<<":", "O", "F", "F">>)
MECUT == Str(<<"M", "E", "C", "U", "T", " ", "M", "E", ":">>)
MEAUTO == Str(<<"M", "E", "A", "U", "T", "O", " ", "M", "E", ":">>)
SELECT ==
    Str(<<"S", "E", "L", "E", "C", "T", " ", "P", "G", "M", ":", "1", ":", "I", "N", ":">>)
KEYCUT == Str(<<"K", "E", "Y", "C", "U", "T", " ", "M", "E", ":">>)
KEYAUTO == Str(<<"K", "E", "Y", "A", "U", "T", "O", " ", "M", "E", ":">>)
XPT == Str(<<"X", "P", "T", " ">>)
SALVO == Str(<<"S", "A", "L", "V", "O", " ">>)
Vid == Str(<<"v", "i", "d">>)

\* the menu choices that lead to send_command
SendChoices == {"1", "2", "3", "4", "5", "6", "7", "8", "9", "c"}

\* the command a menu choice builds from the lines the operator types at its
\* prompts (a, b, c in the order of the prompts; a choice reads only as many
\* as it has prompts)
MenuCommand(choice, a, b, c) ==
    CASE choice = "1" -> MECUT \o Prompt(a, One)
      [] choice = "2" -> MEAUTO \o Prompt(a, One)
      [] choice = "3" -> SELECT \o Prompt(a, One)
      [] choice = "4" -> KEYCUT \o Prompt(a, One) \o Colon \o Prompt(b, One)
      [] choice = "5" ->
            KEYCUT \o Prompt(a, One) \o Colon \o Prompt(b, One) \o Off
      [] choice = "6" -> KEYAUTO \o Prompt(a, One) \o Colon \o Prompt(b, One)
      [] choice = "7" ->
            KEYAUTO \o Prompt(a, One) \o Colon \o Prompt(b, One) \o Off
      [] choice = "8" ->
            XPT \o Prompt(a, Vid) \o Space \o Prompt(b, One)
                \o Space \o Prompt(c, One)
      [] choice = "9" -> SALVO \o Prompt(a, One)
      [] choice = "c" -> Strip(Input(a))

\* whether the choice reaches send_command ("if cmd:" for a custom command)
MenuSends(choice, a, b, c) ==
    choice \in SendChoices /\ MenuCommand(choice, a, b, c) # <<>>

\* mutant: a bare newline ends the message
Message_NoCR(cmd) == cmd \o <<LF>>

\* message = f"{command}\r\n"
Message(cmd) == cmd \o <<CR, LF>>

(***************************************************************************)
(* ross_simulator.py: RossTalkSimulator                                    *)
(***************************************************************************)
Peers == 1..MaxPeers

\* client in self.clients
Contains(list, x) == \E i \in 1..Len(list) : list[i] = x

\* mutant: nothing is removed
RemoveFirst_Keep(list, x) == list

\* self.clients.remove(x): the first occurrence is taken out
RemoveFirst(list, x) ==
    LET i == CHOOSE k \in 1..Len(list) :
                 list[k] = x /\ \A j \in 1..(k - 1) : list[j] # x
    IN  SubSeq(list, 1, i - 1) \o SubSeq(list, i + 1, Len(list))

\* self.clients[:]
CopyList(list) == list

NoCall ==
    [n |-> 0, cmd |-> <<>>, snap |-> <<>>, wrote |-> {}, failed |-> {},
     quiet |-> TRUE, st |-> "none"]

NoRun == [kind |-> "none", issued |-> <<>>, ended |-> "none"]

\* __init__, before start()
InitRoss ==
    /\ running = FALSE
    /\ server_socket = "none"
    /\ clients = <<>>
    /\ conn = [p \in Peers |-> "absent"]
    /\ rx = [p \in Peers |-> <<>>]
    /\ r_pc = [p \in Peers |-> "none"]
    /\ a_pc = "none"
    /\ m_pc = "init"
    /\ command = <<>>
    /\ caller = "none"
    /\ todo = <<>>
    /\ seq_i = 0
    /\ keyer_on = FALSE
    /\ toggles = 0
    /\ ops = 0
    /\ bc = NoCall
    /\ bc_prev = NoCall
    /\ run = NoRun

\* the server is not part of the specification
IdleRoss ==
    /\ InitRoss

\* the server at its menu with the first k clients connected, each reader
\* waiting in recv
InitCmd ==
    \E k \in 0..MaxPeers :
        /\ running = TRUE
        /\ server_socket = "listening"
        /\ clients = [i \in 1..k |-> i]
        /\ conn = [p \in Peers |-> IF p <= k THEN "open" ELSE "absent"]
        /\ rx = [p \in Peers |-> <<>>]
        /\ r_pc = [p \in Peers |-> IF p <= k THEN "recv" ELSE "none"]
        /\ a_pc = "accept"
        /\ m_pc = "menu"
        /\ command = <<>>
        /\ caller = "none"
        /\ todo = <<>>
        /\ seq_i = 0
        /\ keyer_on = FALSE
        /\ toggles = 0
        /\ ops = 0
        /\ bc = NoCall
        /\ bc_prev = NoCall
        /\ run = NoRun

\* the process is alive: its daemon threads run
Alive == m_pc \notin {"init", "exit", "crashed"}

\* the connection set was changed by the accept thread or a reader: noted
\* in the history of the calls it may affect
Disturbed(b) == [b EXCEPT !.quiet = FALSE]

\* start(): bind and listen succeed, the accept thread is started, the menu
\* is entered
Start ==
    /\ m_pc = "init"
    /\ server_socket' = "listening"
    /\ running' = TRUE
    /\ a_pc' = "accept"
    /\ m_pc' = "menu"
    /\ UNCHANGED <<clients, conn, rx, r_pc, sendVars, seqVars, ops, histVars,
                   encVars, tslVars>>

\* start(): bind raises (address in use); main's finally closes the socket
StartFail ==
    /\ m_pc = "init"
    /\ server_socket' = "closed"
    /\ m_pc' = "crashed"
    /\ UNCHANGED <<running, clients, peerVars, sendVars, seqVars, ops,
                   histVars, encVars, tslVars>>

\* _accept_connections: accept() returns the socket of peer p (sockets are
\* numbered in the order accept returns them); it is
\* appended to self.clients and its reader thread is started; then the loop
\* head reads self.running
Accept(p) ==
    /\ Alive
    /\ a_pc = "accept"
    /\ server_socket = "listening"
    /\ conn[p] = "absent"
    /\ \A q \in 1..(p - 1) : conn[q] # "absent"
    /\ conn' = [conn EXCEPT ![p] = "open"]
    /\ clients' = Append(clients, p)
    /\ r_pc' = [r_pc EXCEPT ![p] = "head"]
    /\ a_pc' = IF running THEN "accept" ELSE "done"
    /\ bc' = Disturbed(bc)
    /\ bc_prev' = Disturbed(bc_prev)
    /\ UNCHANGED <<srvVars, rx, m_pc, sendVars, seqVars, ops, run,
                   encVars, tslVars>>

\* _accept_connections: accept() raises (interrupted, aborted connection,
\* no descriptors left, socket closed): "except: break"
AcceptFail ==
    /\ Alive
    /\ a_pc = "accept"
    /\ a_pc' = "done"
    /\ UNCHANGED <<srvVars, clients, conn, rx, r_pc, m_pc, sendVars, seqVars,
                   ops, histVars, encVars, tslVars>>

\* the peer closes or resets its end of the connection
PeerClose(p) ==
    /\ Alive
    /\ conn[p] = "open"
    /\ conn' = [conn EXCEPT ![p] = "gone"]
    /\ UNCHANGED <<srvVars, clients, rx, r_pc, a_pc, m_pc, sendVars, seqVars,
                   ops, histVars, encVars, tslVars>>

\* the peer stops reading: once the socket's send buffer is full,
\* client.send (a blocking socket, no timeout) does not return
PeerStall(p) ==
    /\ Alive
    /\ conn[p] = "open"
    /\ conn' = [conn EXCEPT ![p] = "stalled"]
    /\ UNCHANGED <<srvVars, clients, rx, r_pc, a_pc, m_pc, sendVars, seqVars,
                   ops, histVars, encVars, tslVars>>

\* the peer reads again: there is room in the send buffer
PeerDrain(p) ==
    /\ Alive
    /\ conn[p] = "stalled"
    /\ conn' = [conn EXCEPT ![p] = "open"]
    /\ UNCHANGED <<srvVars, clients, rx, r_pc, a_pc, m_pc, sendVars, seqVars,
                   ops, histVars, encVars, tslVars>>

\* _receive_data: "while self.running" at the loop head
ReaderHead(p) ==
    /\ Alive
    /\ r_pc[p] = "head"
    /\ r_pc' = [r_pc EXCEPT ![p] = IF running THEN "recv" ELSE "check"]
    /\ UNCHANGED <<srvVars, clients, conn, rx, a_pc, m_pc, sendVars, seqVars,
                   ops, histVars, encVars, tslVars>>

\* _receive_data: recv returns bytes the peer sent; they are printed
ReaderData(p) ==
    /\ Alive
    /\ r_pc[p] = "recv"
    /\ conn[p] = "open"
    /\ r_pc' = [r_pc EXCEPT ![p] = "head"]
    /\ UNCHANGED <<srvVars, clients, conn, rx, a_pc, m_pc, sendVars, seqVars,
                   ops, histVars, encVars, tslVars>>

\* mutant: end-of-stream does not leave the loop
ReaderEnd_Continue(p) ==
    /\ Alive
    /\ r_pc[p] = "recv"
    /\ conn[p] = "gone"
    /\ r_pc' = [r_pc EXCEPT ![p] = "head"]
    /\ UNCHANGED <<srvVars, clients, conn, rx, a_pc, m_pc, sendVars, seqVars,
                   ops, histVars, encVars, tslVars>>

\* _receive_data: recv returns b"" or raises: break
ReaderEnd(p) ==
    /\ Alive
    /\ r_pc[p] = "recv"
    /\ conn[p] = "gone"
    /\ r_pc' = [r_pc EXCEPT ![p] = "check"]
    /\ UNCHANGED <<srvVars, clients, conn, rx, a_pc, m_pc, sendVars, seqVars,
                   ops, histVars, encVars, tslVars>>

\* _receive_data: "if client_socket in self.clients"
ReaderCheck(p) ==
    /\ Alive
    /\ r_pc[p] = "check"
    /\ r_pc' = [r_pc EXCEPT ![p] =
                    IF Contains(clients, p) THEN "remove" ELSE "done"]
    /\ UNCHANGED <<srvVars, clients, conn, rx, a_pc, m_pc, sendVars, seqVars,
                   ops, histVars, encVars, tslVars>>

\* _receive_data: self.clients.remove(client_socket); ValueError ends the
\* thread when the socket is no longer in the list
ReaderRemove(p) ==
    /\ Alive
    /\ r_pc[p] = "remove"
    /\ IF Contains(clients, p)
       THEN /\ clients' = RemoveFirst(clients, p)
            /\ r_pc' = [r_pc EXCEPT ![p] = "done"]
            /\ bc' = Disturbed(bc)
            /\ bc_prev' = Disturbed(bc_prev)
       ELSE /\ r_pc' = [r_pc EXCEPT ![p] = "died"]
            /\ UNCHANGED <<clients, bc, bc_prev>>
    /\ UNCHANGED <<srvVars, conn, rx, a_pc, m_pc, sendVars, seqVars, ops, run,
                   encVars, tslVars>>

(***************************************************************************)
(* send_command                                                            *)
(***************************************************************************)
\* where the main thread continues when send_command returns to its caller
RetPc(ret) ==
    CASE ret = "menu" -> "menu"
      [] ret = "seq" -> "seq"
      [] ret = "toggle" -> "toggle_set"
      [] ret = "toggle_except" -> "menu"

\* the history of the menu choice once send_command has returned to ret: the
\* call made by the toggle test's KeyboardInterrupt handler is its last act
Returned(ret, r) ==
    IF ret = "toggle_except" THEN [r EXCEPT !.ended = "toggle stopped"] ELSE r

\* the history of a call the main thread has left by an exception
Aborted(b, how) == IF b.st = "active" THEN [b EXCEPT !.st = how] ELSE b

\* mutant: no "if not self.clients" check, the loop is always entered
CallSend_NoCheck(cmd, ret, r) ==
    /\ command' = cmd
    /\ caller' = ret
    /\ todo' = <<>>
    /\ bc_prev' = Aborted(bc, "interrupted")
    /\ bc' = [n |-> bc.n + 1, cmd |-> cmd, snap |-> <<>>, wrote |-> {},
              failed |-> {}, quiet |-> TRUE, st |-> "active"]
    /\ m_pc' = "snapshot"
    /\ run' = [r EXCEPT !.issued = Append(@, cmd)]

\* send_command(cmd) is called from ret: "if not self.clients" prints the
\* warning and returns; otherwise the message is built
CallSend(cmd, ret, r) ==
    LET r1 == [r EXCEPT !.issued = Append(@, cmd)]
        b == [n |-> bc.n + 1, cmd |-> cmd, snap |-> <<>>, wrote |-> {},
              failed |-> {}, quiet |-> TRUE, st |-> "active"]
    IN  /\ command' = cmd
        /\ caller' = ret
        /\ todo' = <<>>
        /\ bc_prev' = Aborted(bc, "interrupted")
        /\ IF clients = <<>>
           THEN /\ bc' = [b EXCEPT !.st = "no clients"]
                /\ m_pc' = RetPc(ret)
                /\ run' = Returned(ret, r1)
           ELSE /\ bc' = b
                /\ m_pc' = "snapshot"
                /\ run' = r1

\* the for loop is exhausted (rest is what is left to iterate): return
LoopOn(rest) ==
    /\ todo' = rest
    /\ IF rest = <<>>
       THEN /\ m_pc' = RetPc(caller)
            /\ run' = Returned(caller, run)
       ELSE /\ m_pc' = "loop"
            /\ run' = run

\* "for client in self.clients[:]": the list is copied
SendSnapshot ==
    /\ m_pc = "snapshot"
    /\ LoopOn(CopyList(clients))
    /\ bc' = [bc EXCEPT !.snap = CopyList(clients),
                        !.st = IF clients = <<>> THEN "returned" ELSE @]
    /\ UNCHANGED <<srvVars, clients, peerVars, command, caller, seqVars, ops,
                   bc_prev, encVars, tslVars>>

\* mutant: the message is written twice to the peer
SendOk_Twice ==
    /\ m_pc = "loop"
    /\ ~Utf8Raises(Message(command))
    /\ conn[Head(todo)] # "stalled"
    /\ LET p == Head(todo)
           e == [call |-> bc.n, data |-> Utf8Encode(Message(command))]
       IN
       /\ rx' = [rx EXCEPT ![p] = Append(Append(@, e), e)]
       /\ bc' = [bc EXCEPT !.wrote = @ \cup {p},
                           !.st = IF Tail(todo) = <<>> THEN "returned" ELSE @]
    /\ LoopOn(Tail(todo))
    /\ UNCHANGED <<srvVars, clients, conn, r_pc, a_pc, command, caller,
                   seqVars, ops, bc_prev, encVars, tslVars>>

\* client.send(message.encode('utf-8')) succeeds (a peer that has just gone
\* may still take the bytes); it blocks while the peer is stalled
SendOk ==
    /\ m_pc = "loop"
    /\ ~Utf8Raises(Message(command))
    /\ conn[Head(todo)] # "stalled"
    /\ LET p == Head(todo) IN
       /\ rx' = [rx EXCEPT ![p] =
                     Append(@, [call |-> bc.n,
                                data |-> Utf8Encode(Message(command))])]
       /\ bc' = [bc EXCEPT !.wrote = @ \cup {p},
                           !.st = IF Tail(todo) = <<>> THEN "returned" ELSE @]
    /\ LoopOn(Tail(todo))
    /\ UNCHANGED <<srvVars, clients, conn, r_pc, a_pc, command, caller,
                   seqVars, ops, bc_prev, encVars, tslVars>>

\* encode or send raises: "except Exception" is entered
SendFail ==
    /\ m_pc = "loop"
    /\ conn[Head(todo)] = "gone" \/ Utf8Raises(Message(command))
    /\ m_pc' = "except"
    /\ bc' = [bc EXCEPT !.failed = @ \cup {Head(todo)}]
    /\ UNCHANGED <<srvVars, clients, peerVars, sendVars, seqVars, ops,
                   bc_prev, run, encVars, tslVars>>

\* self.clients.remove(client) in the handler, and on with the loop
SendRemove ==
    /\ m_pc = "except"
    /\ Contains(clients, Head(todo))
    /\ clients' = RemoveFirst(clients, Head(todo))
    /\ bc' = [bc EXCEPT !.st = IF Tail(todo) = <<>> THEN "returned" ELSE @]
    /\ LoopOn(Tail(todo))
    /\ UNCHANGED <<srvVars, peerVars, command, caller, seqVars, ops,
                   bc_prev, encVars, tslVars>>

\* self.clients.remove(client) raises ValueError: the reader of that client
\* has removed it meanwhile. No caller catches it: main's finally closes
\* the listening socket and the process ends with the traceback
SendRemoveRaises ==
    /\ m_pc = "except"
    /\ ~Contains(clients, Head(todo))
    /\ bc' = Aborted(bc, "raised")
    /\ m_pc' = "crashed"
    /\ server_socket' = "closed"
    /\ todo' = <<>>
    /\ UNCHANGED <<running, clients, peerVars, command, caller, seqVars, ops,
                   bc_prev, run, encVars, tslVars>>

(***************************************************************************)
(* _interactive_menu                                                       *)
(***************************************************************************)
NewRun(kind) == [kind |-> kind, issued |-> <<>>, ended |-> "none"]

\* choices 1-9 and c: the operator types choice and, at the prompts, lines
\* of typed; the command is passed to send_command (limit bounds the
\* choices made)
MenuSend(choices, typed, limit) ==
    /\ m_pc = "menu"
    /\ ops < limit
    /\ ops' = ops + 1
    /\ \E choice \in choices \cap SendChoices, a \in typed, b \in typed,
          c \in typed :
          IF MenuSends(choice, a, b, c)
          THEN CallSend(MenuCommand(choice, a, b, c), "menu", NewRun("menu"))
          ELSE /\ run' = NewRun("menu")
               /\ UNCHANGED <<m_pc, sendVars, bc, bc_prev>>
    /\ UNCHANGED <<srvVars, clients, peerVars, seqVars, encVars, tslVars>>

\* choice q: self.running = False; break
MenuQuit ==
    /\ m_pc = "menu"
    /\ running' = FALSE
    /\ m_pc' = "stopped"
    /\ UNCHANGED <<server_socket, clients, peerVars, sendVars, seqVars, ops,
                   histVars, encVars, tslVars>>

\* start() has returned to main: "finally: simulator.server_socket.close()"
\* and the process ends
MainClose ==
    /\ m_pc = "stopped"
    /\ server_socket' = "closed"
    /\ m_pc' = "exit"
    /\ UNCHANGED <<running, clients, peerVars, sendVars, seqVars, ops,
                   histVars, encVars, tslVars>>

(***************************************************************************)
(* _run_production_sequence and _run_keyer_toggle_test                     *)
(***************************************************************************)
Digit2 == Str(<<"2">>)
Digit3 == Str(<<"3">>)
KeycutOn == KEYCUT \o One \o Colon \o One
KeycutOff == KEYCUT \o One \o Colon \o One \o Off

\* mutant: the second and third commands change places
SeqCommands_Swapped ==
    << SELECT \o One,
       SELECT \o Digit2, MECUT \o One,
       KEYCUT \o One \o Colon \o One,
       MECUT \o One, SELECT \o Digit3,
       KEYCUT \o One \o Colon \o One \o Off,
       MEAUTO \o One, SELECT \o One,
       KEYCUT \o One \o Colon \o Digit2,
       KEYCUT \o One \o Colon \o Digit2 \o Off,
       MECUT \o One, SELECT \o Digit2 >>

\* mutant: keyer 1 is not taken off before keyer 2 goes on
SeqCommands_KeyerLeftOn ==
    << SELECT \o One,
       MECUT \o One, SELECT \o Digit2,
       KEYCUT \o One \o Colon \o One,
       MECUT \o One, SELECT \o Digit3,
       MEAUTO \o One, SELECT \o One,
       KEYCUT \o One \o Colon \o Digit2,
       KEYCUT \o One \o Colon \o Digit2 \o Off,
       KEYCUT \o One \o Colon \o One \o Off,
       MECUT \o One, SELECT \o Digit2 >>

\* the commands of the production sequence, in the order of its calls
SeqCommands ==
    << SELECT \o One,
       MECUT \o One, SELECT \o Digit2,
       KEYCUT \o One \o Colon \o One,
       MECUT \o One, SELECT \o Digit3,
       KEYCUT \o One \o Colon \o One \o Off,
       MEAUTO \o One, SELECT \o One,
       KEYCUT \o One \o Colon \o Digit2,
       KEYCUT \o One \o Colon \o Digit2 \o Off,
       MECUT \o One, SELECT \o Digit2 >>

\* choice 10
MenuSequence ==
    /\ m_pc = "menu"
    /\ ops < SeqOps
    /\ ops' = ops + 1
    /\ m_pc' = "seq"
    /\ seq_i' = 0
    /\ run' = NewRun("seq")
    /\ UNCHANGED <<srvVars, clients, peerVars, sendVars, keyer_on, toggles,
                   bc, bc_prev, encVars, tslVars>>

\* the next send_command of the sequence (after the sleep before it)
SeqStep ==
    /\ m_pc = "seq"
    /\ seq_i < Len(SeqCommands)
    /\ seq_i' = seq_i + 1
    /\ CallSend(SeqCommands[seq_i + 1], "seq", run)
    /\ UNCHANGED <<srvVars, clients, peerVars, keyer_on, toggles, ops,
                   encVars, tslVars>>

\* "Production sequence complete!"
SeqDone ==
    /\ m_pc = "seq"
    /\ seq_i = Len(SeqCommands)
    /\ m_pc' = "menu"
    /\ run' = [run EXCEPT !.ended = "seq complete"]
    /\ UNCHANGED <<srvVars, clients, peerVars, sendVars, seqVars, ops,
                   bc, bc_prev, encVars, tslVars>>

\* choice 11: keyer_on = False
MenuToggle ==
    /\ m_pc = "menu"
    /\ ops < SeqOps
    /\ ops' = ops + 1
    /\ m_pc' = "toggle"
    /\ keyer_on' = FALSE
    /\ toggles' = 0
    /\ run' = NewRun("toggle")
    /\ UNCHANGED <<srvVars, clients, peerVars, sendVars, seq_i,
                   bc, bc_prev, encVars, tslVars>>

\* the loop body up to the return of send_command (reached from the sleep
\* that ends the iteration before)
ToggleStep ==
    /\ m_pc = "toggle"
    /\ toggles < MaxToggles
    /\ toggles' = toggles + 1
    /\ CallSend(IF keyer_on THEN KeycutOff ELSE KeycutOn, "toggle", run)
    /\ UNCHANGED <<srvVars, clients, peerVars, seq_i, keyer_on, ops,
                   encVars, tslVars>>

\* the assignment after the call: keyer_on = False in the branch taken when
\* it was true, keyer_on = True in the other; then time.sleep(3)
ToggleSet ==
    /\ m_pc = "toggle_set"
    /\ keyer_on' = ~keyer_on
    /\ m_pc' = "toggle"
    /\ UNCHANGED <<srvVars, clients, peerVars, sendVars, seq_i, toggles, ops,
                   histVars, encVars, tslVars>>

(***************************************************************************)
(* KeyboardInterrupt in the main thread                                    *)
(***************************************************************************)
\* the try block the main thread is in
Context ==
    CASE m_pc \in {"snapshot", "loop", "except"} -> caller
      [] m_pc = "menu" -> "menu"
      [] m_pc = "seq" -> "seq"
      [] m_pc \in {"toggle", "toggle_set"} -> "toggle"
      [] OTHER -> "none"

\* in the menu, or in the handler of the toggle test: the interrupt leaves
\* start(); main prints "Shutting down...", closes the listening socket
InterruptMain ==
    /\ Context \in {"menu", "toggle_except"}
    /\ m_pc' = "exit"
    /\ server_socket' = "closed"
    /\ todo' = <<>>
    /\ bc' = Aborted(bc, "interrupted")
    /\ UNCHANGED <<running, clients, peerVars, command, caller, seqVars, ops,
                   bc_prev, run, encVars, tslVars>>

\* in the production sequence: "Stopped by user", back to the menu
InterruptSeq ==
    /\ Context = "seq"
    /\ m_pc' = "menu"
    /\ todo' = <<>>
    /\ bc' = Aborted(bc, "interrupted")
    /\ run' = [run EXCEPT !.ended = "seq stopped"]
    /\ UNCHANGED <<srvVars, clients, peerVars, command, caller, seqVars, ops,
                   bc_prev, encVars, tslVars>>

\* in the toggle test: "if keyer_on: self.send_command(KEYCUT ME:1:1:OFF)",
\* then "Stopped by user", back to the menu
InterruptToggle ==
    /\ Context = "toggle"
    /\ IF keyer_on
       THEN CallSend(KeycutOff, "toggle_except", run)
       ELSE /\ m_pc' = "menu"
            /\ todo' = <<>>
            /\ bc' = Aborted(bc, "interrupted")
            /\ run' = [run EXCEPT !.ended = "toggle stopped"]
            /\ UNCHANGED <<command, caller, bc_prev>>
    /\ UNCHANGED <<srvVars, clients, peerVars, seqVars, ops, encVars, tslVars>>

(***************************************************************************)
(* Specifications.                                                         *)
(***************************************************************************)
\* what the operator types at a prompt: Enter alone
EnterOnly == {<<LF>>}

\* lines typed at a prompt: Enter alone; a number; text with a carriage
\* return inside and blanks around it, ended by CR LF
TypedLines ==
    { <<LF>>,
      Str(<<"2">>) \o <<LF>>,
      Str(<<" ", "3">>) \o <<CR>> \o Str(<<"4">>) \o <<CR, LF>> }

\* two choices that send different commands
OrderChoices == {"1", "2"}

\* the choices of the operator of the concurrent server
ServerChoices == {"1"}

\* the accept thread, the readers and the peers
NextThreads(P) ==
    \/ \E p \in P : Accept(p)
    \/ AcceptFail
    \/ \E p \in P : PeerClose(p)
    \/ \E p \in P : ReaderHead(p)
    \/ \E p \in P : ReaderData(p)
    \/ \E p \in P : ReaderEnd(p)
    \/ \E p \in P : ReaderCheck(p)
    \/ \E p \in P : ReaderRemove(p)

\* send_command
NextSend ==
    \/ SendSnapshot
    \/ SendOk
    \/ SendFail
    \/ SendRemove
    \/ SendRemoveRaises

\* the server driven from the menu by single commands
NextRoss ==
    \/ Start
    \/ StartFail
    \/ NextThreads(Peers)
    \/ NextSend
    \/ MenuSend(ServerChoices, EnterOnly, MaxOps)
    \/ MenuQuit
    \/ MainClose
    \/ InterruptMain

\* the threads while a sequence or test runs: clients connect and go away,
\* they send nothing, and accept does not fail
NextSeqThreads(P) ==
    \/ \E p \in P : Accept(p)
    \/ \E p \in P : PeerClose(p)
    \/ \E p \in P : ReaderHead(p)
    \/ \E p \in P : ReaderEnd(p)
    \/ \E p \in P : ReaderCheck(p)
    \/ \E p \in P : ReaderRemove(p)

\* the server driven by the production sequence and the toggle test
NextSeq ==
    \/ Start
    \/ NextSeqThreads(1..SeqPeers)
    \/ NextSend
    \/ MenuSequence
    \/ SeqStep
    \/ SeqDone
    \/ MenuToggle
    \/ ToggleStep
    \/ ToggleSet
    \/ InterruptMain
    \/ InterruptSeq
    \/ InterruptToggle

\* the operator typing arbitrary lines at every prompt, the clients staying
\* connected
NextCmd ==
    \/ MenuSend(SendChoices, TypedLines, CmdOps)
    \/ SendSnapshot
    \/ SendOk

\* the server at its menu with clients that stop reading, read again or go
\* away while commands are broadcast to them
NextStall ==
    \/ MenuSend(ServerChoices, EnterOnly, MaxOps)
    \/ NextSend
    \/ \E p \in Peers : PeerStall(p)
    \/ \E p \in Peers : PeerDrain(p)
    \/ \E p \in Peers : PeerClose(p)
    \/ \E p \in Peers : ReaderEnd(p)
    \/ \E p \in Peers : ReaderCheck(p)
    \/ \E p \in Peers : ReaderRemove(p)

\* the server at its menu sending different commands one after the other
\* while clients connect and go away
NextOrder ==
    \/ MenuSend(OrderChoices, EnterOnly, MaxOps)
    \/ NextSend
    \/ NextSeqThreads(Peers)

NextEnc == Encode

NextTsl ==
    \/ TslConnect
    \/ TslConnectFail
    \/ TslSendFrame
    \/ TslSendFail
    \/ TslTickSent
    \/ TslAdvance
    \/ TslInterrupt

InitOfEnc == InitEnc /\ IdleTsl /\ IdleRoss

InitOfTsl == IdleEnc /\ InitTsl /\ IdleRoss

InitOfRoss == IdleEnc /\ IdleTsl /\ InitRoss

InitOfCmd == IdleEnc /\ IdleTsl /\ InitCmd

\* the encoder applied to every input of the bounded sets
SpecEnc == InitOfEnc /\ [][NextEnc]_vars

\* the tally client driver
SpecTsl == InitOfTsl /\ [][NextTsl]_vars

\* the RossTalk server, its threads and its operator
Spec == InitOfRoss /\ [][NextRoss]_vars

\* the commands of the menu, written to the clients connected
SpecCmd == InitOfCmd /\ [][NextCmd]_vars

\* the RossTalk server running the production sequence and the toggle test
SpecSeq == InitOfRoss /\ [][NextSeq]_vars

\* one step of the reader thread of client p other than a read that returns
\* data
ReaderStep(p) ==
    ReaderHead(p) \/ ReaderEnd(p) \/ ReaderCheck(p) \/ ReaderRemove(p)

\* the RossTalk server with reader threads that are scheduled: a reader that
\* can take a step takes it in the end
SpecReaders ==
    InitOfRoss /\ [][NextRoss]_vars /\ \A p \in Peers : WF_vars(ReaderStep(p))

\* the production sequence and the toggle test with a main thread that is
\* scheduled: inside the sequence and inside send_command it takes its next
\* step in the end
SpecSeqRun ==
    InitOfRoss /\ [][NextSeq]_vars /\ WF_vars(SeqStep \/ SeqDone \/ NextSend)

\* successive broadcasts of different commands
SpecOrder == InitOfCmd /\ [][NextOrder]_vars

\* broadcasts to clients that may stall; the main thread, inside
\* send_command, takes its next step if it can again and again
SpecStall == InitOfCmd /\ [][NextStall]_vars /\ SF_vars(NextSend)

(***************************************************************************)
(* The receiver's view of a frame: the wire layout of the frame table      *)
(* (offsets count from 0, integers are little-endian).                     *)
(***************************************************************************)
\* the unsigned 16-bit field at offset off
U16At(msg, off) == msg[off + 1] + 256 * msg[off + 2]

PbcField(msg) == U16At(msg, 0)
IndexField(msg) == U16At(msg, 6)
ControlField(msg) == U16At(msg, 8)
TextLenField(msg) == U16At(msg, 10)
TextField(msg) == SubSeq(msg, 13, 12 + TextLenField(msg))

\* bits lo..lo+1 of a control word
BitPair(control, lo) == (control \div (2 ^ lo)) % 4

RECURSIVE Utf8Decode(_)
\* the code points of a UTF-8 byte string
Utf8Decode(b) ==
    IF b = <<>> THEN <<>>
    ELSE IF b[1] < 128 THEN <<b[1]>> \o Utf8Decode(SubSeq(b, 2, Len(b)))
    ELSE IF b[1] < 224
        THEN <<(b[1] - 192) * 64 + (b[2] - 128)>>
                 \o Utf8Decode(SubSeq(b, 3, Len(b)))
    ELSE IF b[1] < 240
        THEN <<(b[1] - 224) * 4096 + (b[2] - 128) * 64 + (b[3] - 128)>>
                 \o Utf8Decode(SubSeq(b, 4, Len(b)))
    ELSE <<(b[1] - 240) * 262144 + (b[2] - 128) * 4096
               + (b[3] - 128) * 64 + (b[4] - 128)>>
             \o Utf8Decode(SubSeq(b, 5, Len(b)))

RECURSIVE SplitFrames(_)
\* a receiver cutting a byte stream into frames by the leading length field
\* alone; bytes that do not make a whole frame are dropped
SplitFrames(stream) ==
    IF Len(stream) < 2 THEN <<>>
    ELSE LET n == 2 + PbcField(stream) IN
         IF Len(stream) < n THEN <<>>
         ELSE <<SubSeq(stream, 1, n)>>
                  \o SplitFrames(SubSeq(stream, n + 1, Len(stream)))

\* the call returned a frame
Encoded == e_out.raised = NoError

\* the bytes written to the connection in the current tick
TickMsgs == [k \in 1..Len(tick) |-> tick[k].msg]

(***************************************************************************)
(* Claims.                                                                 *)
(***************************************************************************)

\* C4: in a tick of the send loop exactly one catalog source is sent with
\* program lit, the one at the rotation cursor, and exactly one with preview
\* lit, the one at cursor+1 modulo the catalog size (read off the control
\* field of the frames written); a tick still under way has lit at most
\* those; and the cursor is the number of completed ticks modulo the catalog
\* size, so it is back at 0 after every 4 completed ticks.
C4_Rotation ==
    LET pgm == {k \in 1..Len(tick) : BitPair(ControlField(tick[k].msg), 0) = 3}
        pvw == {k \in 1..Len(tick) : BitPair(ControlField(tick[k].msg), 2) = 3}
        n == Len(SOURCES)
    IN  /\ pgm = {current_program + 1} \cap (1..Len(tick))
        /\ pvw = {((current_program + 1) % n) + 1} \cap (1..Len(tick))
        /\ Len(tick) = n => Cardinality(pgm) = 1 /\ Cardinality(pvw) = 1
        /\ current_program = ticks % n
        /\ (ticks % n = 0 => current_program = 0)

\* C4 witness: the fifth tick is fully sent after four completed ticks, with
\* the cursor back at 0: source 0 is lit program and source 1 preview again
C4_Witness ==
    /\ ticks = Len(SOURCES)
    /\ current_program = 0
    /\ Len(tick) = Len(SOURCES)
    /\ tick[1].program /\ tick[2].preview

\* C5 as stated: the payload-length field is 8 + text length, and the
\* CAM 1 example yields payload length 13
C5_Original ==
    Encoded =>
        /\ PbcField(e_out.msg) = 8 + TextLenField(e_out.msg)
        /\ (e_args = [index |-> 1, program |-> TRUE, preview |-> FALSE,
                      text |-> CAM1]
                => PbcField(e_out.msg) = 13)

\* C5 amended: for every input for which build_tsl5_message returns a frame,
\* the payload-length field is 10 + text length (the encoded byte count of
\* the text); encode(1, true, false, "CAM 1") yields payload length 15,
\* control 0x0003 and text length 5.
C5_PayloadLength ==
    Encoded =>
        /\ PbcField(e_out.msg) = 10 + Len(Utf8Encode(e_args.text))
        /\ PbcField(e_out.msg) = 10 + TextLenField(e_out.msg)
        /\ (e_args = [index |-> 1, program |-> TRUE, preview |-> FALSE,
                      text |-> CAM1]
                => /\ PbcField(e_out.msg) = 15
                   /\ ControlField(e_out.msg) = 3
                   /\ TextLenField(e_out.msg) = 5)

\* C5 witness: the CAM 1 example has been encoded
C5_Witness ==
    /\ Encoded
    /\ e_args = [index |-> 1, program |-> TRUE, preview |-> FALSE, text |-> CAM1]
    /\ Len(e_out.msg) = 17

\* C6: every frame written in a tick carries in its payload-length field
\* the number of its bytes from offset 2 onward, and a receiver that splits
\* the concatenated bytes of the tick by the leading length field alone
\* recovers exactly the frames written, in order.
C6_SelfDelimiting ==
    /\ \A k \in 1..Len(tick) :
           PbcField(tick[k].msg) = Len(tick[k].msg) - 2
    /\ SplitFrames(Concat(TickMsgs)) = TickMsgs

\* C6 witness: a whole tick of four frames of differing lengths is on the wire
C6_Witness ==
    /\ Len(tick) = Len(SOURCES)
    /\ Len(tick[4].msg) > Len(tick[1].msg)
    /\ Len(SplitFrames(Concat(TickMsgs))) = 4

\* C8: for an index in the unsigned 16-bit range, any two booleans and any
\* label, decoding the frame by the wire layout recovers the index, the two
\* tally booleans and the label; the text-length field is the number of
\* encoded bytes of the label (not of its characters) and the text fills the
\* frame to its end.
C8_RoundTrip ==
    Encoded =>
        LET msg == e_out.msg IN
        /\ IndexField(msg) = e_args.index
        /\ (BitPair(ControlField(msg), 0) = 3) = e_args.program
        /\ (BitPair(ControlField(msg), 2) = 3) = e_args.preview
        /\ TextLenField(msg) = Len(Utf8Encode(e_args.text))
        /\ Len(msg) = 12 + TextLenField(msg)
        /\ Utf8Decode(TextField(msg)) = e_args.text

\* C8 witness: a frame whose label has multi-byte characters, so that its
\* byte count differs from its character count, with an index above one byte
C8_Witness ==
    /\ Encoded
    /\ e_args.index = 65535
    /\ Len(e_args.text) = 2
    /\ TextLenField(e_out.msg) = 7

\* C9: in the control field bits 0-1 are 3 when program is true and 0
\* otherwise, bits 2-3 are 3 when preview is true and 0 otherwise, and all
\* higher bits are 0.
C9_ControlField ==
    Encoded =>
        LET control == ControlField(e_out.msg) IN
        /\ BitPair(control, 0) = (IF e_args.program THEN 3 ELSE 0)
        /\ BitPair(control, 2) = (IF e_args.preview THEN 3 ELSE 0)
        /\ control \div 16 = 0
        /\ control \in {0, 3, 12, 15}

\* C9 witness: both tallies lit at once
C9_Witness ==
    /\ Encoded
    /\ e_args.program /\ e_args.preview
    /\ ControlField(e_out.msg) = 15

\* the elements of a list
Range(list) == {list[i] : i \in 1..Len(list)}

\* list without the elements of set S, order kept
Without(list, S) == SelectSeq(list, LAMBDA x : x \notin S)

\* the entries of peer p's written bytes that come from call n
FromCall(p, n) == {i \in 1..Len(rx[p]) : rx[p][i].call = n}

\* the bytes of a message before its last two
Body(d) == SubSeq(d, 1, Len(d) - 2)

\* a carriage return or a line feed occurs in t
HasCrLf(t) == \E i \in 1..Len(t) : t[i] \in {CR, LF}

\* C1: when send_command has returned from a broadcast in which the write to
\* exactly one peer k of the copied connection set failed, every other peer
\* of that set has been written the message, once, and k is not in the
\* connection set; and if neither the accept thread nor a reader has changed
\* the set since that broadcast began, the next broadcast attempts a write to
\* exactly the N-1 remaining peers, in their order.
C1_OneWriteFails ==
    /\ (bc.st = "returned" /\ Cardinality(bc.failed) = 1) =>
           /\ \A p \in Range(bc.snap) \ bc.failed :
                  /\ p \in bc.wrote
                  /\ Cardinality(FromCall(p, bc.n)) = 1
                  /\ \A i \in FromCall(p, bc.n) :
                         rx[p][i].data = Utf8Encode(bc.cmd) \o <<CR, LF>>
           /\ \A k \in bc.failed :
                  /\ k \in Range(bc.snap)
                  /\ ~Contains(clients, k)
                  /\ FromCall(k, bc.n) = {}
    /\ ( /\ bc_prev.st = "returned"
         /\ Cardinality(bc_prev.failed) = 1
         /\ bc.st \in {"returned", "no clients"}
         /\ bc.n = bc_prev.n + 1
         /\ bc.quiet /\ bc_prev.quiet ) =>
           LET remaining == Without(bc_prev.snap, bc_prev.failed) IN
           /\ bc.snap = remaining
           /\ bc.wrote \cup bc.failed = Range(remaining)
           /\ Cardinality(bc.wrote \cup bc.failed) = Len(bc_prev.snap) - 1
           /\ (bc.st = "no clients") = (remaining = <<>>)

\* C1 witness: of two connected peers one write failed, and the next
\* broadcast, with the set untouched by the threads, wrote to the other
C1_Witness ==
    /\ bc_prev.st = "returned"
    /\ Len(bc_prev.snap) = 2
    /\ Cardinality(bc_prev.failed) = 1
    /\ Cardinality(bc_prev.wrote) = 1
    /\ bc.st = "returned"
    /\ bc.n = bc_prev.n + 1
    /\ bc.quiet /\ bc_prev.quiet
    /\ bc.wrote = bc_prev.wrote
    /\ Len(clients) = 1

\* C2 as stated: once the toggle test has been cancelled and has exited, the
\* last message written during the test to a peer that is still connected
\* is KEYCUT ME:1:1:OFF
C2_KeyerOffAfterCancel ==
    (run.kind = "toggle" /\ run.ended = "toggle stopped") =>
        \A p \in Peers :
            (conn[p] = "open" /\ Contains(clients, p) /\ rx[p] # <<>>) =>
                rx[p][Len(rx[p])].data = Utf8Encode(Message(KeycutOff))

\* C3 as stated: once the server is stopped (after the quit choice, or when
\* main has shut down) the connection set is empty
C3_StopEmptiesClients ==
    m_pc \in {"stopped", "exit"} => clients = <<>>

\* C7 as stated: every message written to a peer ends in CR LF and has no
\* other CR or LF
C7_Original ==
    \A p \in Peers : \A i \in 1..Len(rx[p]) :
        LET d == rx[p][i].data IN
        /\ Len(d) >= 2
        /\ SubSeq(d, Len(d) - 1, Len(d)) = <<CR, LF>>
        /\ ~HasCrLf(Body(d))

\* C7 amended: every message written to a peer is the command passed to
\* send_command followed by CR LF, so it ends in exactly CR LF; it has
\* another CR or LF exactly when the command has one (operator input is
\* stripped at its ends only and passed through otherwise); the scripted
\* commands have none.
C7_Terminator ==
    /\ \A p \in Peers : \A i \in 1..Len(rx[p]) :
           LET d == rx[p][i].data
               b == IF rx[p][i].call = bc.n THEN bc ELSE bc_prev
           IN  /\ Len(d) >= 2
               /\ SubSeq(d, Len(d) - 1, Len(d)) = <<CR, LF>>
               /\ b.n = rx[p][i].call
               /\ Body(d) = Utf8Encode(b.cmd)
               /\ HasCrLf(Body(d)) = HasCrLf(b.cmd)
    /\ \A k \in 1..Len(SeqCommands) : ~HasCrLf(SeqCommands[k])
    /\ ~HasCrLf(KeycutOn) /\ ~HasCrLf(KeycutOff)

\* C7 witness: a command with a carriage return inside, typed by the
\* operator, has been written to two peers
C7_Witness ==
    /\ Len(rx[1]) = 1 /\ Len(rx[2]) = 1
    /\ HasCrLf(Body(rx[1][1].data))
    /\ rx[2][1].data = rx[1][1].data
    /\ bc.st = "returned"

\* C10: a call of send_command made while the connection set is empty
\* returns at once to its caller having reported the no-clients condition:
\* nothing is written to any peer, no exception leaves it, and the connection
\* set and the running flag are as before.
C10_NoPeers ==
    [][ (bc'.n = bc.n + 1 /\ clients = <<>>) =>
            /\ bc'.st = "no clients"
            /\ rx' = rx
            /\ clients' = clients
            /\ running' = running
            /\ server_socket' = server_socket
            /\ m_pc' = RetPc(caller')
      ]_vars

\* C10 witness: the no-clients condition was reported to the menu after a
\* client had connected and been dropped
C10_Witness ==
    /\ bc.st = "no clients"
    /\ bc.wrote = {}
    /\ m_pc = "menu"
    /\ running
    /\ clients = <<>>
    /\ conn[1] = "gone"

\* C11 as stated: a write failure inside a broadcast never ends send_command
\* by an exception: every call in which a write failed returns to its
\* caller, and every peer whose write failed is out of the connection set
\* once it has
C11_WriteFailureContained ==
    /\ bc.st # "raised"
    /\ bc_prev.st # "raised"
    /\ (bc.st = "returned" => \A k \in bc.failed : ~Contains(clients, k))

\* C12 as stated: whatever the accept thread and the readers do during a
\* call of send_command, once the call is over (it has returned or an
\* exception has left it; a KeyboardInterrupt of the operator aside) a write
\* has been attempted to every peer of the copied connection set, and one
\* message of the call is with every peer whose write succeeded and none
\* with any other
C12_SnapshotAllAttempted ==
    bc.st \in {"returned", "raised"} =>
        /\ bc.wrote \cup bc.failed = Range(bc.snap)
        /\ bc.wrote \cap bc.failed = {}
        /\ \A p \in Peers :
               Cardinality(FromCall(p, bc.n)) = IF p \in bc.wrote THEN 1 ELSE 0

\* C13 as stated: no reader thread ends by an error, and a reader that has
\* ended has left its connection out of the connection set
C13_ReaderRemovalSafe ==
    \A p \in Peers :
        /\ r_pc[p] # "died"
        /\ (r_pc[p] = "done" => ~Contains(clients, p))

\* C15 as stated: while the server is running and the process lives, the
\* accept loop has not ended
C15_AcceptLoopSurvives ==
    (running /\ Alive) => a_pc # "done"

\* C17 as stated: when the run loop has been cancelled, the frames written
\* in the tick under way are those of no source or of all of them, so the
\* frames written in all are a multiple of the catalog size
C17_NoHalfSentCycle ==
    t_pc = "stopped" =>
        /\ Len(tick) \in {0, Len(SOURCES)}
        /\ (ticks * Len(SOURCES) + Len(tick)) % Len(SOURCES) = 0

\* C14 as stated: in a broadcast, every peer of the copied connection set
\* that is connected and reading is eventually written the message, whatever
\* happens to the writes to the other peers (one of them may block and never
\* complete); a peer that has gone or is itself the slow one, and the call
\* having ended, are the only other ways out
C14_SlowPeerNoStall ==
    \A q \in Peers :
        (bc.st = "active" /\ q \in Range(bc.snap))
            ~> \/ q \in bc.wrote \cup bc.failed
               \/ bc.st # "active"
               \/ conn[q] # "open"

\* C16: while the process lives, a connection whose peer has reached
\* end-of-stream (or whose read fails) is in the end out of the connection
\* set with its reader thread over; and a read that returns data leaves the
\* connection set as it is, the connection in it, and the reader in its loop.
C16_ReaderCleansUp ==
    /\ \A p \in Peers :
           (conn[p] = "gone" /\ r_pc[p] \in {"head", "recv", "check", "remove"})
               ~> \/ ~Alive
                  \/ (~Contains(clients, p) /\ r_pc[p] \in {"done", "died"})
    /\ [][ \A p \in Peers :
               (r_pc[p] = "recv" /\ r_pc'[p] = "head") =>
                   /\ conn[p] = "open"
                   /\ clients' = clients
                   /\ Contains(clients', p) ]_vars

\* C16 witness: with the server running, the reader of a client that went
\* away has removed it from the connection set (no broadcast was made) and
\* has ended, while the reader of another client has read data and goes on
C16_Witness ==
    /\ running /\ Alive
    /\ bc.n = 0
    /\ conn[1] = "gone" /\ r_pc[1] = "done" /\ ~Contains(clients, 1)
    /\ conn[2] = "open" /\ r_pc[2] = "head" /\ Contains(clients, 2)

\* the thirteen commands of the show segment, as text
Script ==
    << Str(<<"S", "E", "L", "E", "C", "T", " ", "P", "G", "M", ":", "1", ":", "I", "N", ":", "1">>),
       Str(<<"M", "E", "C", "U", "T", " ", "M", "E", ":", "1">>),
       Str(<<"S", "E", "L", "E", "C", "T", " ", "P", "G", "M", ":", "1", ":", "I", "N", ":", "2">>),
       Str(<<"K", "E", "Y", "C", "U", "T", " ", "M", "E", ":", "1", ":", "1">>),
       Str(<<"M", "E", "C", "U", "T", " ", "M", "E", ":", "1">>),
       Str(<<"S", "E", "L", "E", "C", "T", " ", "P", "G", "M", ":", "1", ":", "I", "N", ":", "3">>),
       Str(<<"K", "E", "Y", "C", "U", "T", " ", "M", "E", ":", "1", ":", "1", ":", "O", "F", "F">>),
       Str(<<"M", "E", "A", "U", "T", "O", " ", "M", "E", ":", "1">>),
       Str(<<"S", "E", "L", "E", "C", "T", " ", "P", "G", "M", ":", "1", ":", "I", "N", ":", "1">>),
       Str(<<"K", "E", "Y", "C", "U", "T", " ", "M", "E", ":", "1", ":", "2">>),
       Str(<<"K", "E", "Y", "C", "U", "T", " ", "M", "E", ":", "1", ":", "2", ":", "O", "F", "F">>),
       Str(<<"M", "E", "C", "U", "T", " ", "M", "E", ":", "1">>),
       Str(<<"S", "E", "L", "E", "C", "T", " ", "P", "G", "M", ":", "1", ":", "I", "N", ":", "2">>) >>

KeyerIds == {Str(<<"1">>), Str(<<"2">>), Str(<<"3">>)}
KeyOnCmd(k) == Str(<<"K", "E", "Y", "C", "U", "T", " ", "M", "E", ":", "1", ":">>) \o k
KeyOffCmd(k) == KeyOnCmd(k) \o Str(<<":", "O", "F", "F">>)

\* the keyers on after the commands cmds: put on and not taken off since
KeyersOn(cmds) ==
    {k \in KeyerIds :
        \E i \in 1..Len(cmds) :
            /\ cmds[i] = KeyOnCmd(k)
            /\ \A j \in (i + 1)..Len(cmds) : cmds[j] # KeyOffCmd(k)}

\* C19: at every point of the production sequence at most one keyer is on
\* by the commands issued so far; every command of the sequence that puts a
\* keyer on is followed later in it by the command that takes that keyer
\* off; and when the sequence has completed no keyer is on.
C19_KeyersPaired ==
    /\ run.kind = "seq" =>
           /\ Cardinality(KeyersOn(run.issued)) <= 1
           /\ (run.ended = "seq complete" => KeyersOn(run.issued) = {})
    /\ \A i \in 1..Len(SeqCommands) : \A k \in KeyerIds :
           SeqCommands[i] = KeyOnCmd(k) =>
               \E j \in (i + 1)..Len(SeqCommands) : SeqCommands[j] = KeyOffCmd(k)
    /\ \E i \in 1..Len(SeqCommands) : SeqCommands[i] = KeyOnCmd(Str(<<"1">>))
    /\ \E i \in 1..Len(SeqCommands) : SeqCommands[i] = KeyOnCmd(Str(<<"2">>))

\* C19 witness: in the sequence keyer 2 is on, keyer 1 having been on and
\* taken off before
C19_Witness ==
    /\ run.kind = "seq"
    /\ KeyersOn(run.issued) = {Str(<<"2">>)}
    /\ \E i \in 1..Len(run.issued) : run.issued[i] = KeyOffCmd(Str(<<"1">>))
    /\ m_pc = "seq"

\* the command of call n, one of the last two calls of send_command
CmdOfCall(n) == IF n = bc.n THEN bc.cmd ELSE bc_prev.cmd

\* C20: what has been written to a peer is in the order of the calls of
\* send_command, at most one message of each call, each the message of its
\* call; a call that has returned has written exactly one to every peer of
\* the copied connection set whose write succeeded, so a peer in the set
\* through two successive calls with its writes succeeding has the two
\* messages last, in the order of the calls; a call that has returned, the
\* threads aside, leaves the connection set as copied less the peers whose
\* write failed (unchanged if none failed); and a step of send_command
\* changes the connection set only by removing the peer whose write just
\* failed.
C20_OrderAndFrame ==
    /\ [](/\ \A p \in Peers :
                /\ \A i \in 1..Len(rx[p]) : \A j \in (i + 1)..Len(rx[p]) :
                       rx[p][i].call < rx[p][j].call
                /\ \A i \in 1..Len(rx[p]) :
                       /\ rx[p][i].call \in 1..bc.n
                       /\ rx[p][i].call >= bc.n - 1 =>
                              rx[p][i].data =
                                  Utf8Encode(Message(CmdOfCall(rx[p][i].call)))
          /\ \A b \in {bc, bc_prev} :
                b.st = "returned" =>
                    \A p \in Range(b.snap) \ b.failed :
                        Cardinality(FromCall(p, b.n)) = 1
          /\ (bc.st = "returned" /\ bc_prev.st = "returned") =>
                \A p \in (Range(bc.snap) \ bc.failed)
                             \cap (Range(bc_prev.snap) \ bc_prev.failed) :
                    /\ Len(rx[p]) >= 2
                    /\ rx[p][Len(rx[p]) - 1].call = bc_prev.n
                    /\ rx[p][Len(rx[p])].call = bc.n
          /\ (bc.st = "returned" /\ bc.quiet) =>
                /\ clients = Without(bc.snap, bc.failed)
                /\ (bc.failed = {} => clients = bc.snap))
    /\ [][ (clients' # clients /\ r_pc' = r_pc /\ conn' = conn) =>
               /\ m_pc = "except"
               /\ Head(todo) \in bc.failed
               /\ clients' = RemoveFirst(clients, Head(todo))
               /\ Len(clients') = Len(clients) - 1 ]_vars

\* C20 witness: two different commands were broadcast one after the other;
\* peer 1 was written both, in that order, and stays in the connection set;
\* the write to peer 2 failed in the second call, which removed it and no
\* other
C20_Witness ==
    /\ bc.n = 2
    /\ bc.st = "returned" /\ bc_prev.st = "returned"
    /\ bc.quiet
    /\ bc.cmd # bc_prev.cmd
    /\ Len(rx[1]) = 2
    /\ rx[1][1].call = 1 /\ rx[1][2].call = 2
    /\ rx[1][1].data # rx[1][2].data
    /\ bc_prev.failed = {} /\ bc.failed = {2}
    /\ clients = <<1>>

====
